---------------------------- MODULE Spec2Model ----------------------------
(***************************************************************************)
(* Telemetry relay of the Apollo 11 visualisation.                         *)
(*                                                                         *)
(*   relay   (src/unnamed/part_004): POST /api/spacecraft-distance and the *)
(*           WebSocketServer whose clients it broadcasts to;               *)
(*   client  (src/unnamed/part_001): WebSocketService, its reconnection    *)
(*           timer and its callbacks map.                                  *)
(*                                                                         *)
(* Both run on a single-threaded event loop: every handler is one atomic   *)
(* action.                                                                 *)
(***************************************************************************)
EXTENDS Integers, Sequences, FiniteSets, TLC

(***************************************************************************)
(* JavaScript values.  A number is a record [k, m, d]: k = "fin" is the    *)
(* decimal m / 10^d (d > 0 only with m not a multiple of 10), k = "inf" is *)
(* +Infinity (m = 1) or -Infinity (m = -1), k = "nan" is NaN.  A string is *)
(* the sequence of its characters.                                         *)
(***************************************************************************)
Fin(m, d) == [k |-> "fin", m |-> m, d |-> d]

Inf(sgn) == [k |-> "inf", m |-> sgn, d |-> 0]

NaN == [k |-> "nan", m |-> 0, d |-> 0]

JsUndefined == [t |-> "undefined", n |-> NaN, s |-> <<>>]

JsNull == [t |-> "null", n |-> NaN, s |-> <<>>]

JsBool(b) == [t |-> IF b THEN "true" ELSE "false", n |-> NaN, s |-> <<>>]

JsNumber(n) == [t |-> "number", n |-> n, s |-> <<>>]

JsString(s) == [t |-> "string", n |-> NaN, s |-> s]

\* the object literal {} and the array literal []
JsObject == [t |-> "object", n |-> NaN, s |-> <<>>]

JsArray == [t |-> "array", n |-> NaN, s |-> <<>>]

DigitChars == <<"0", "1", "2", "3", "4", "5", "6", "7", "8", "9">>

IsDigit(c) == \E i \in 1..Len(DigitChars) : DigitChars[i] = c

DigitVal(c) == (CHOOSE i \in 1..Len(DigitChars) : DigitChars[i] = c) - 1

IsSpace(c) == c \in {" ", "\t", "\n"}

RECURSIVE TrimLeft(_)
TrimLeft(s) ==
    IF s # <<>> /\ IsSpace(Head(s)) THEN TrimLeft(Tail(s)) ELSE s

RECURSIVE TrimRight(_)
TrimRight(s) ==
    IF s # <<>> /\ IsSpace(s[Len(s)])
    THEN TrimRight(SubSeq(s, 1, Len(s) - 1))
    ELSE s

AllDigits(s) == \A i \in 1..Len(s) : IsDigit(s[i])

RECURSIVE DigitsVal(_)
DigitsVal(s) ==
    IF s = <<>> THEN 0
    ELSE 10 * DigitsVal(SubSeq(s, 1, Len(s) - 1)) + DigitVal(s[Len(s)])

RECURSIVE StripZeros(_)
StripZeros(s) ==
    IF s # <<>> /\ s[Len(s)] = "0"
    THEN StripZeros(SubSeq(s, 1, Len(s) - 1))
    ELSE s

\* StrUnsignedDecimalLiteral without an exponent part: digits, digits.digits,
\* digits. and .digits; sgn is the sign already read.
UnsignedDecimal(s, sgn) ==
    LET dots == {i \in 1..Len(s) : s[i] = "."}
        dot  == IF dots = {} THEN Len(s) + 1 ELSE CHOOSE i \in dots : TRUE
        ip   == SubSeq(s, 1, dot - 1)
        fr   == SubSeq(s, dot + 1, Len(s))
        fp   == StripZeros(fr)
    IN  IF /\ Cardinality(dots) <= 1
           /\ AllDigits(ip)
           /\ AllDigits(fr)
           /\ Len(ip) + Len(fr) >= 1
        THEN Fin(sgn * DigitsVal(ip \o fp), Len(fp))
        ELSE NaN

\* ToNumber applied to a string (StringToNumber): surrounding white space is
\* dropped, the empty string is 0, [+-]Infinity is infinite, a decimal literal
\* is its value, anything else is NaN.  (The strings of Distances use neither
\* an exponent nor a 0x/0o/0b prefix.)
StringToNumber(str) ==
    LET t    == TrimRight(TrimLeft(str))
        sgn  == IF t # <<>> /\ Head(t) = "-" THEN -1 ELSE 1
        body == IF t # <<>> /\ Head(t) \in {"+", "-"} THEN Tail(t) ELSE t
    IN  IF t = <<>> THEN Fin(0, 0)
        ELSE IF body = <<"I", "n", "f", "i", "n", "i", "t", "y">> THEN Inf(sgn)
        ELSE UnsignedDecimal(body, sgn)

\* Number(v)
ToNumber(v) ==
    CASE v.t = "undefined" -> NaN
      [] v.t = "null"      -> Fin(0, 0)
      [] v.t = "true"      -> Fin(1, 0)
      [] v.t = "false"     -> Fin(0, 0)
      [] v.t = "number"    -> v.n
      [] v.t = "string"    -> StringToNumber(v.s)
      [] v.t = "array"     -> StringToNumber(<<>>)
      [] v.t = "object"    -> NaN

\* isNaN(n) for a number n
IsNaN(n) == n.k = "nan"

IsFinite(n) == n.k = "fin"

\* JSON.stringify of a number, read back by JSON.parse: a finite number is
\* itself, NaN and the infinities are written as null.
JsonNumber(n) == IF IsFinite(n) THEN JsNumber(n) ELSE JsNull

(***************************************************************************)
(* Bounds and input sets.                                                  *)
(***************************************************************************)
\* requests handled in one run
MaxPosts == 2

\* subscribe calls in one run
MaxSubs == 2

\* close events counted
MaxCloses == 2

\* GET requests handled in one run
MaxGets == 2

\* onDistanceUpdate calls in one run
MaxOns == 2

\* clock ticks counted at or after the scene end time in one mount
MaxTicks == 3

\* ms of one step of the clock
TickMs == 1000

\* the delay of setTimeout(() => this.connect(), 2000)
ReconnectDelay == 2000

\* connections the relay can hold
Conns == {"a", "b"}

Abc == <<"a", "b", "c">>

\* the values the `distance` field of a request body takes: omitted, null,
\* {}, numbers (zero, negative, fractional, large, and the overflowing
\* literal 1e999 that JSON.parse reads as Infinity) and strings
Distances ==
    { JsUndefined, JsNull, JsObject,
      JsNumber(Fin(0, 0)), JsNumber(Fin(-5, 0)), JsNumber(Fin(15, 1)),
      JsNumber(Fin(2000000000, 0)), JsNumber(Inf(1)),
      JsString(<<"4", "2">>), JsString(Abc), JsString(<<>>),
      JsString(<<"I", "n", "f", "i", "n", "i", "t", "y">>),
      JsString(<<"-", "I", "n", "f", "i", "n", "i", "t", "y">>) }

VARIABLES
    clients,      \* wss.clients, in insertion order
    readyState,   \* readyState of each connection
    inbox,        \* the frames each connection has been sent since it opened
    posts,        \* requests handled so far
    lastReq,      \* the last request handled and what it did (history)
    closeEvents   \* close events of each connection since it opened: 0, 1,
                  \* or 2 for more than one (history)

VARIABLES
    instance,     \* WebSocketService.instance exists
    socks,        \* the client's sockets that have not closed yet, oldest first
    timers,       \* ms left on each pending setTimeout(() => this.connect())
    callbacks,    \* this.callbacks: type -> registrations, in push order
    handles,      \* the unsubscribe closures returned so far: [type, cb]
    called,       \* the closures called at least once (history)
    closes,       \* close events seen, counted up to MaxCloses (history)
    elapsed,      \* ms since the last close event, up to ReconnectDelay (history)
    last          \* the last client event and what it did (history)

VARIABLES
    conn,         \* for each socket of socks, its connection at the relay,
                  \* "none" until the relay has accepted it
    got,          \* the frames of inbox[c] that have reached the client
    missed        \* the requests handled while the client had no open
                  \* connection at the relay (history)

relayVars ==
    <<clients, readyState, inbox, posts, lastReq, closeEvents>>

clientVars ==
    <<instance, socks, timers, callbacks, handles, called, closes, elapsed,
      last>>

VARIABLES
    started,      \* app.listen has been called
    distExists,   \* fs.existsSync(distPath), read once when the server starts
    dist,         \* the dist directory: whether it exists, and its files
    replies       \* the GET requests handled and their responses (history)

VARIABLES
    currentScene,   \* App state: "home", "earth" or "moon"
    isLoading,      \* App state
    nextScene,      \* App state: "null", "earth" or "moon"
    committed,      \* the App state React rendered last
    loadTimer,      \* the nextScene the pending setTimeout of App's effect
                    \* captured, "none" when no timeout is pending
    selectedOption, \* HomeScreen state: "null", "launch" or "landing"
    moonModule,     \* the lazy MoonScene module: "idle", "pending", "resolved"
    viewer,         \* viewerRef.current holds a Cesium.Viewer
    czml,           \* initialize(): "none", "loading", "ready" or "failed"
    onTick,         \* onTickListener is registered on viewer.clock.onTick, its
                    \* remover is in onTickListenerRemoverRef
    triggered,      \* sceneSwitchTriggeredRef.current
    tracked,        \* viewer.trackedEntity: "none", "SaturnV" or "Post-TLI"
    now,            \* viewer.clock.currentTime, s after 1969-07-16T00:00:00Z
    ended,          \* calls of onEarthSceneEnd in this mount of Earth: 0, 1, or
                    \* 2 for more than one (history)
    lateTicks       \* clock ticks at or after the scene end time since the
                    \* listener was added in this mount (history)

VARIABLES
    emitter,      \* the "distanceUpdate" listeners of eventEmitter, in order
    removers,     \* the callback of each function onDistanceUpdate returned
    removed,      \* the functions of removers called at least once (history)
    heard         \* the last handleSpacecraftData and what it did (history)

linkVars == <<conn, got, missed>>

staticVars == <<started, distExists, dist, replies>>

appVars ==
    <<currentScene, isLoading, nextScene, committed, loadTimer, selectedOption,
      moonModule, viewer, czml, onTick, triggered, tracked, now, ended,
      lateTicks>>

hookVars == <<emitter, removers, removed, heard>>

\* the variables of the parts that take no part when the relay and the
\* client run
otherVars == <<staticVars, appVars, hookVars>>

\* what a step of the relay or of the client on its own leaves alone
aloneVars == <<linkVars, otherVars>>

netVars == <<relayVars, clientVars, linkVars>>

\* what a step of the static hosting, of the App and of WebhookService leaves
\* alone
exceptStatic == <<netVars, appVars, hookVars>>

exceptApp == <<netVars, staticVars, hookVars>>

exceptHook == <<netVars, staticVars, appVars>>

vars == <<relayVars, clientVars, linkVars, otherVars>>

Range(seq) == {seq[i] : i \in 1..Len(seq)}

NoSends == [c \in Conns |-> <<>>]

\* JSON.stringify({type: "spacecraft-distance", payload: Number(distance)})
Envelope(distance) ==
    [type |-> "spacecraft-distance", payload |-> JsonNumber(ToNumber(distance))]

\* the guard of the 400 response
InvalidDistance(distance) ==
    distance.t = "undefined" \/ IsNaN(ToNumber(distance))

\* variant: forEach without the readyState test
RECURSIVE ForEachClientAll(_, _, _, _)
ForEachClientAll(i, frame, failing, sent) ==
    IF i > Len(clients) THEN [threw |-> FALSE, sent |-> sent]
    ELSE LET client == clients[i]
         IN  IF client \in failing
             THEN [threw |-> TRUE, sent |-> sent]
             ELSE ForEachClientAll(i + 1, frame, failing,
                      [sent EXCEPT ![client] = Append(@, frame)])

\* wss.clients.forEach from the i-th client on.  sent[c] are the frames sent
\* to c by this call.  A send that throws leaves forEach: nothing after it is
\* visited.
RECURSIVE ForEachClient(_, _, _, _)
ForEachClient(i, frame, failing, sent) ==
    IF i > Len(clients) THEN [threw |-> FALSE, sent |-> sent]
    ELSE LET client == clients[i]
         IN  IF readyState[client] = "OPEN"
             THEN IF client \in failing
                  THEN [threw |-> TRUE, sent |-> sent]
                  ELSE ForEachClient(i + 1, frame, failing,
                           [sent EXCEPT ![client] = Append(@, frame)])
             ELSE ForEachClient(i + 1, frame, failing, sent)

\* the response bodies
SuccessBody == "{\"status\":\"success\",\"message\":\"Distance data received\"}"

InvalidDistanceBody == "{\"error\":\"Invalid distance value\"}"

InternalErrorBody == "{\"error\":\"Internal server error\"}"

ServerErrorBody == "Server error"

\* app.post("/api/spacecraft-distance"): the status and the frames sent.
\* failing are the connections whose send throws during this request.
HandlePost(distance, failing) ==
    IF InvalidDistance(distance)
    THEN [status |-> 400, body |-> InvalidDistanceBody, sent |-> NoSends]
    ELSE LET r == ForEachClient(1, Envelope(distance), failing, NoSends)
         IN  IF r.threw
             THEN [status |-> 500, body |-> InternalErrorBody, sent |-> r.sent]
             ELSE [status |-> 200, body |-> SuccessBody, sent |-> r.sent]

OpenConns == {c \in Range(clients) : readyState[c] = "OPEN"}

\* the sends that can throw during one request: none, or those to one of the
\* open connections
Failures == {{}} \cup {{c} : c \in OpenConns}

\* variant: frames leave a connection's buffer last in, first out
DeliverFirst(old, new) == new \o old

\* client.send on one connection: the frames new follow the frames old
Deliver(old, new) == old \o new

\* variant: the broadcast drops the connections that are not open from
\* wss.clients
PostPrune(distance, failing) ==
    /\ posts < MaxPosts
    /\ LET r == HandlePost(distance, failing)
       IN  /\ inbox' = [c \in Conns |-> Deliver(inbox[c], r.sent[c])]
           /\ lastReq' = [distance |-> distance, parsed |-> TRUE,
                          status |-> r.status, body |-> r.body,
                          open |-> OpenConns, order |-> clients,
                          failing |-> failing, sent |-> r.sent]
    /\ posts' = posts + 1
    /\ clients' = IF InvalidDistance(distance) THEN clients
                  ELSE SelectSeq(clients, LAMBDA c : readyState[c] = "OPEN")
    /\ UNCHANGED <<readyState, closeEvents, clientVars>>

\* a request with a JSON body
Post(distance, failing) ==
    /\ posts < MaxPosts
    /\ LET r == HandlePost(distance, failing)
       IN  /\ inbox' = [c \in Conns |-> Deliver(inbox[c], r.sent[c])]
           /\ lastReq' = [distance |-> distance, parsed |-> TRUE,
                          status |-> r.status, body |-> r.body,
                          open |-> OpenConns, order |-> clients,
                          failing |-> failing, sent |-> r.sent]
    /\ posts' = posts + 1
    /\ UNCHANGED <<clients, readyState, closeEvents, clientVars>>

\* a request whose body is not valid JSON: bodyParser.json() passes its error to
\* the error-handling middleware and the route does not run
PostMalformedBody ==
    /\ posts < MaxPosts
    /\ lastReq' = [distance |-> JsUndefined, parsed |-> FALSE,
                   status |-> 500, body |-> ServerErrorBody,
                   open |-> OpenConns, order |-> clients,
                   failing |-> {}, sent |-> NoSends]
    /\ posts' = posts + 1
    /\ UNCHANGED <<clients, readyState, inbox, closeEvents, clientVars>>

\* variant: a new connection is sent the last envelope published
WsConnectionReplay(c) ==
    /\ c \notin Range(clients)
    /\ clients' = Append(clients, c)
    /\ readyState' = [readyState EXCEPT ![c] = "OPEN"]
    /\ inbox' = [inbox EXCEPT ![c] =
                    IF lastReq.status = 200
                    THEN <<Envelope(lastReq.distance)>> ELSE <<>>]
    /\ closeEvents' = [closeEvents EXCEPT ![c] = 0]
    /\ UNCHANGED <<posts, lastReq, clientVars>>

\* handleUpgrade: a new connection joins wss.clients, open; the connection
\* handler logs
WsConnection(c) ==
    /\ c \notin Range(clients)
    /\ clients' = Append(clients, c)
    /\ readyState' = [readyState EXCEPT ![c] = "OPEN"]
    /\ inbox' = [inbox EXCEPT ![c] = <<>>]
    /\ closeEvents' = [closeEvents EXCEPT ![c] = 0]
    /\ UNCHANGED <<posts, lastReq, clientVars>>

\* a close handshake starts: the connection stays in wss.clients until its
\* close event
WsClosing(c) ==
    /\ c \in Range(clients)
    /\ readyState[c] = "OPEN"
    /\ readyState' = [readyState EXCEPT ![c] = "CLOSING"]
    /\ UNCHANGED <<clients, inbox, posts, lastReq, closeEvents, clientVars>>

\* variant: the set kept as an array, clients.splice(clients.indexOf(c), 1),
\* which drops the last element when c is not there
DeleteSplice(set, c) ==
    IF c \in Range(set) THEN SelectSeq(set, LAMBDA x : x # c)
    ELSE SubSeq(set, 1, Len(set) - 1)

\* wss.clients.delete(c)
Delete(set, c) == SelectSeq(set, LAMBDA x : x # c)

\* the close event: the connection leaves wss.clients and the close handler
\* logs
WsClose(c) ==
    /\ c \in Range(clients)
    /\ clients' = Delete(clients, c)
    /\ readyState' = [readyState EXCEPT ![c] = "CLOSED"]
    /\ closeEvents' = [closeEvents EXCEPT ![c] = 1]
    /\ UNCHANGED <<inbox, posts, lastReq, clientVars>>

\* a further close event of a connection that has closed
WsCloseAgain(c) ==
    /\ closeEvents[c] >= 1
    /\ clients' = Delete(clients, c)
    /\ readyState' = [readyState EXCEPT ![c] = "CLOSED"]
    /\ closeEvents' = [closeEvents EXCEPT ![c] = 2]
    /\ UNCHANGED <<inbox, posts, lastReq, clientVars>>

NoRequest ==
    [distance |-> JsUndefined, parsed |-> FALSE, status |-> 0, body |-> "",
     open |-> {}, order |-> <<>>, failing |-> {}, sent |-> NoSends]

InitRelay ==
    /\ clients = <<>>
    /\ readyState = [c \in Conns |-> "CLOSED"]
    /\ inbox = [c \in Conns |-> <<>>]
    /\ posts = 0
    /\ lastReq = NoRequest
    /\ closeEvents = [c \in Conns |-> 0]

\* the relay alone
NextRelay ==
    \/ \E d \in Distances, f \in Failures : Post(d, f) /\ UNCHANGED aloneVars
    \/ PostMalformedBody /\ UNCHANGED aloneVars
    \/ \E c \in Conns : WsConnection(c) /\ UNCHANGED aloneVars
    \/ \E c \in Conns : WsClosing(c) /\ UNCHANGED aloneVars
    \/ \E c \in Conns : WsClose(c) /\ UNCHANGED aloneVars
    \/ \E c \in Conns : WsCloseAgain(c) /\ UNCHANGED aloneVars

(***************************************************************************)
(* The ingestion endpoint and the fan-out.                                 *)
(***************************************************************************)
Handled == lastReq.status # 0

\* a finite number, or a string holding a decimal literal
ValidNumeric(v) ==
    \/ v.t = "number" /\ IsFinite(v.n)
    \/ /\ v.t = "string"
       /\ TrimLeft(v.s) # <<>>
       /\ IsFinite(StringToNumber(v.s))

\* an omitted field, null, or a string that is no number
NonNumeric(v) ==
    \/ v.t \in {"undefined", "null"}
    \/ v.t = "string" /\ IsNaN(StringToNumber(v.s))

\* the envelope {type: "spacecraft-distance", payload: Number(distance)}
NumberEnvelope(distance) ==
    [type |-> "spacecraft-distance", payload |-> JsNumber(ToNumber(distance))]

\* C1: a request whose distance is a valid numeric value is answered 200 and
\* sends exactly one envelope {type: "spacecraft-distance", payload:
\* Number(distance)} to every connection open at the time of the call, and
\* nothing to any other connection.
C1_ValidDeliveredToAllOpen ==
    (Handled /\ ValidNumeric(lastReq.distance)) =>
        /\ lastReq.status = 200
        /\ \A c \in Conns :
              lastReq.sent[c] = IF c \in lastReq.open
                                THEN <<NumberEnvelope(lastReq.distance)>>
                                ELSE <<>>

\* C2: a request whose distance is non-numeric or missing ("abc", null, an
\* omitted field, a string that gives NaN) is answered 400 and sends no
\* envelope to any connection.
C2_NonNumericRejected ==
    (Handled /\ lastReq.parsed /\ NonNumeric(lastReq.distance)) =>
        lastReq.status = 400 /\ lastReq.sent = NoSends

FinitePayload(frame) ==
    frame.payload.t = "number" /\ IsFinite(frame.payload.n)

\* C3: every envelope broadcast carries a finite numeric payload, and a
\* request whose distance does not parse as a finite number is answered with
\* a client-error status and sends nothing.
C3_OnlyFiniteBroadcast ==
    /\ \A c \in Conns : \A i \in 1..Len(inbox[c]) : FinitePayload(inbox[c][i])
    /\ (Handled /\ lastReq.parsed /\ ~IsFinite(ToNumber(lastReq.distance))) =>
          /\ lastReq.status \in 400..499
          /\ lastReq.sent = NoSends

\* C4: when the send to one open connection throws during a broadcast, every
\* other open connection still receives the envelope, wherever the failing
\* connection stands in the visiting order, and the request is answered 200.
C4_SendFailureIsolated ==
    (Handled /\ ValidNumeric(lastReq.distance) /\ lastReq.failing # {}) =>
        /\ lastReq.status = 200
        /\ \A c \in lastReq.open \ lastReq.failing :
              lastReq.sent[c] = <<NumberEnvelope(lastReq.distance)>>

(***************************************************************************)
(* The subscriber client, WebSocketService.                                *)
(***************************************************************************)
Types == {"spacecraft-distance", "other"}

\* the functions passed to subscribe
Listeners == {"f", "g", "h"}

\* the functions subscribed after getInstance (ThreeListeners starts with
\* all of Listeners subscribed)
Subscribers == {"f", "g"}

Payloads == {JsNumber(Fin(384400, 0)), JsNull}

\* event.data of a message event: text that JSON.parse rejects, the JSON
\* texts null and {}, and envelopes
Malformed == [json |-> "malformed", type |-> "", payload |-> JsUndefined]

JsonNull == [json |-> "null", type |-> "", payload |-> JsUndefined]

JsonEmptyObject == [json |-> "object", type |-> "", payload |-> JsUndefined]

EnvelopeData(type, payload) ==
    [json |-> "object", type |-> type, payload |-> payload]

Datas ==
    {Malformed, JsonNull, JsonEmptyObject}
        \cup {EnvelopeData(t, p) : t \in Types, p \in Payloads}

\* what a listener does when it is called: return, throw, or call the
\* unsubscribe closure handles[h] and return
Return == [do |-> "return", h |-> 0]

Throw == [do |-> "throw", h |-> 0]

Off(h) == [do |-> "off", h |-> h]

Scripts ==
    [Listeners -> {Return, Throw} \cup {Off(h) : h \in 1..Len(handles)}]

\* the listeners data can reach: those registered for its type
Reached(data) ==
    IF data.json = "object" /\ data.type \in DOMAIN callbacks
    THEN {callbacks[data.type][i].cb : i \in 1..Len(callbacks[data.type])}
    ELSE {}

\* what the listeners do when data arrives (a listener it cannot reach does
\* nothing)
ScriptsFor(data) ==
    {sc \in Scripts : \A l \in Listeners \ Reached(data) : sc[l] = Return}

NoEvent ==
    [op |-> "none", h |-> 0, data |-> Malformed, before |-> <<>>,
     calls |-> <<>>, caught |-> FALSE, again |-> FALSE, done |-> {},
     offs |-> {}]

RemoveAt(seq, i) == SubSeq(seq, 1, i - 1) \o SubSeq(seq, i + 1, Len(seq))

\* callbacks.indexOf(callback), 0 for -1
IndexOf(list, cb) ==
    LET hits == {i \in 1..Len(list) : list[i].cb = cb}
    IN  IF hits = {} THEN 0 ELSE CHOOSE i \in hits : \A j \in hits : i <= j

\* callbacks.splice(index, 1)
Splice(list, index) ==
    SubSeq(list, 1, index - 1) \o SubSeq(list, index + 1, Len(list))

\* the closure returned by subscribe(handle.type, handle.cb), applied to the
\* map cbs
Unsub(cbs, handle) ==
    IF handle.type \in DOMAIN cbs
    THEN LET index == IndexOf(cbs[handle.type], handle.cb)
         IN  IF index # 0
             THEN [cbs EXCEPT ![handle.type] = Splice(@, index)]
             ELSE cbs
    ELSE cbs

\* Array.prototype.forEach over this.callbacks.get(type), from index k: len is
\* the length when forEach began, an index the array no longer has is
\* skipped, and a listener that throws ends the loop.  st carries the map,
\* the calls made and the closures called.
\* variant: a listener that throws is taken out of the array
RECURSIVE ForEachCallbackEvict(_, _, _, _, _, _)
ForEachCallbackEvict(k, len, type, payload, script, st) ==
    IF k > len \/ k > Len(st.cbs[type]) THEN st
    ELSE LET entry == st.cbs[type][k]
             does  == script[entry.cb]
             made  == Append(st.calls,
                          [cb |-> entry.cb, reg |-> entry.reg, arg |-> payload])
         IN  CASE does.do = "throw" ->
                    [st EXCEPT !.calls = made, !.threw = TRUE,
                               !.cbs[type] = RemoveAt(@, k)]
               [] does.do = "off" ->
                    ForEachCallbackEvict(k + 1, len, type, payload, script,
                        [st EXCEPT !.calls = made,
                                   !.cbs = Unsub(@, handles[does.h]),
                                   !.offs = @ \cup {does.h}])
               [] OTHER ->
                    ForEachCallbackEvict(k + 1, len, type, payload, script,
                        [st EXCEPT !.calls = made])

RECURSIVE ForEachCallback(_, _, _, _, _, _)
ForEachCallback(k, len, type, payload, script, st) ==
    IF k > len \/ k > Len(st.cbs[type]) THEN st
    ELSE LET entry == st.cbs[type][k]
             does  == script[entry.cb]
             made  == Append(st.calls,
                          [cb |-> entry.cb, reg |-> entry.reg, arg |-> payload])
         IN  CASE does.do = "throw" ->
                    [st EXCEPT !.calls = made, !.threw = TRUE]
               [] does.do = "off" ->
                    ForEachCallback(k + 1, len, type, payload, script,
                        [st EXCEPT !.calls = made,
                                   !.cbs = Unsub(@, handles[does.h]),
                                   !.offs = @ \cup {does.h}])
               [] OTHER ->
                    ForEachCallback(k + 1, len, type, payload, script,
                        [st EXCEPT !.calls = made])

\* a truthy data.type
Truthy(type) == type # ""

\* socket.onmessage: the try block and its catch
HandleMessage(data, script) ==
    LET st0 == [cbs |-> callbacks, calls |-> <<>>, threw |-> FALSE, offs |-> {}]
    IN  CASE data.json = "malformed" -> [st0 EXCEPT !.threw = TRUE]
          [] data.json = "null"      -> [st0 EXCEPT !.threw = TRUE]
          [] OTHER ->
               IF Truthy(data.type) /\ data.type \in DOMAIN callbacks
               THEN ForEachCallback(1, Len(callbacks[data.type]), data.type,
                                    data.payload, script, st0)
               ELSE st0

\* connect(): a new socket, connecting
Connect(ss) == Append(ss, "CONNECTING")

\* variant: a reconnection scheduled twice per close (by onerror and onclose)
OnCloseTwice(ts) == ts \o <<ReconnectDelay, ReconnectDelay>>

\* variant: setTimeout without its delay
OnCloseNoDelay(ts) == Append(ts, 0)

\* socket.onclose: one timer of ReconnectDelay ms
OnClose(ts) == Append(ts, ReconnectDelay)

Min(x, y) == IF x < y THEN x ELSE y

Max(x, y) == IF x > y THEN x ELSE y

\* variant: the constructor does not connect
GetInstanceLazy ==
    /\ instance' = TRUE
    /\ last' = [NoEvent EXCEPT !.op = "getInstance"]
    /\ UNCHANGED <<socks, timers, callbacks, handles, called, closes, elapsed,
                   relayVars>>

\* variant: every call constructs a service, with its own socket and map
GetInstanceNew ==
    /\ instance' = TRUE
    /\ socks' = Connect(socks)
    /\ callbacks' = <<>>
    /\ last' = [NoEvent EXCEPT !.op = "getInstance"]
    /\ UNCHANGED <<timers, handles, called, closes, elapsed, relayVars>>

\* WebSocketService.getInstance(): the first call constructs the service,
\* which connects
GetInstance ==
    /\ instance' = TRUE
    /\ socks' = IF instance THEN socks ELSE Connect(socks)
    /\ last' = [NoEvent EXCEPT !.op = "getInstance"]
    /\ UNCHANGED <<timers, callbacks, handles, called, closes, elapsed,
                   relayVars>>

\* the open event of socket i
SocketOpen(i) ==
    /\ socks[i] = "CONNECTING"
    /\ socks' = [socks EXCEPT ![i] = "OPEN"]
    /\ last' = NoEvent
    /\ UNCHANGED <<instance, timers, callbacks, handles, called, closes,
                   elapsed, relayVars>>

\* variant: a retry limit, no reconnection after the first close
SocketCloseGiveUp(i) ==
    /\ socks' = RemoveAt(socks, i)
    /\ timers' = IF closes < 1 THEN OnClose(timers) ELSE timers
    /\ closes' = Min(closes + 1, MaxCloses)
    /\ elapsed' = 0
    /\ last' = [NoEvent EXCEPT !.op = "close"]
    /\ UNCHANGED <<instance, callbacks, handles, called, relayVars>>

\* the close event of socket i (a failed attempt or a lost connection):
\* socket.onclose runs
SocketClose(i) ==
    /\ socks' = RemoveAt(socks, i)
    /\ timers' = OnClose(timers)
    /\ closes' = Min(closes + 1, MaxCloses)
    /\ elapsed' = 0
    /\ last' = [NoEvent EXCEPT !.op = "close"]
    /\ UNCHANGED <<instance, callbacks, handles, called, relayVars>>

\* TickMs pass
Tick ==
    /\ elapsed < ReconnectDelay \/ \E j \in 1..Len(timers) : timers[j] > 0
    /\ timers' = [j \in 1..Len(timers) |-> Max(timers[j] - TickMs, 0)]
    /\ elapsed' = Min(elapsed + TickMs, ReconnectDelay)
    /\ last' = NoEvent
    /\ UNCHANGED <<instance, socks, callbacks, handles, called, closes,
                   relayVars>>

\* timer j is due: () => this.connect()
TimerFire(j) ==
    /\ timers[j] = 0
    /\ timers' = RemoveAt(timers, j)
    /\ socks' = Connect(socks)
    /\ last' = NoEvent
    /\ UNCHANGED <<instance, callbacks, handles, called, closes, elapsed,
                   relayVars>>

\* subscribe(type, callback); the closure returned is handles[Len(handles')]
Subscribe(type, cb) ==
    /\ instance
    /\ Len(handles) < MaxSubs
    /\ LET reg  == [cb |-> cb, reg |-> Len(handles) + 1]
           list == IF type \in DOMAIN callbacks THEN callbacks[type] ELSE <<>>
       IN  callbacks' =
               [t \in DOMAIN callbacks \cup {type} |->
                   IF t = type THEN Append(list, reg) ELSE callbacks[t]]
    /\ handles' = Append(handles, [type |-> type, cb |-> cb])
    /\ last' = NoEvent
    /\ UNCHANGED <<instance, socks, timers, called, closes, elapsed, relayVars>>

\* a call of the closure handles[h]
Unsubscribe(h) ==
    /\ callbacks' = Unsub(callbacks, handles[h])
    /\ called' = called \cup {h}
    /\ last' = [NoEvent EXCEPT !.op = "unsubscribe", !.h = h,
                               !.before = callbacks, !.again = h \in called,
                               !.done = called]
    /\ UNCHANGED <<instance, socks, timers, handles, closes, elapsed, relayVars>>

\* variant: the catch block gives the connection up, socket.close()
OnMessageCloseOnError(data, script) ==
    /\ \E i \in 1..Len(socks) : socks[i] = "OPEN"
    /\ LET r == HandleMessage(data, script)
           i == CHOOSE i \in 1..Len(socks) : socks[i] = "OPEN"
       IN  /\ callbacks' = r.cbs
           /\ called' = called \cup r.offs
           /\ socks' = IF r.threw THEN RemoveAt(socks, i) ELSE socks
           /\ timers' = IF r.threw THEN OnClose(timers) ELSE timers
           /\ last' = [NoEvent EXCEPT !.op = "message", !.data = data,
                                      !.before = callbacks, !.calls = r.calls,
                                      !.caught = r.threw, !.done = called,
                                      !.offs = r.offs]
    /\ UNCHANGED <<instance, handles, closes, elapsed, relayVars>>

\* a message event on an open socket
OnMessage(data, script) ==
    /\ \E i \in 1..Len(socks) : socks[i] = "OPEN"
    /\ LET r == HandleMessage(data, script)
       IN  /\ callbacks' = r.cbs
           /\ called' = called \cup r.offs
           /\ last' = [NoEvent EXCEPT !.op = "message", !.data = data,
                                      !.before = callbacks, !.calls = r.calls,
                                      !.caught = r.threw, !.done = called,
                                      !.offs = r.offs]
    /\ UNCHANGED <<instance, socks, timers, handles, closes, elapsed, relayVars>>

InitClient ==
    /\ instance = FALSE
    /\ socks = <<>>
    /\ timers = <<>>
    /\ callbacks = <<>>
    /\ handles = <<>>
    /\ called = {}
    /\ closes = 0
    /\ elapsed = ReconnectDelay
    /\ last = NoEvent

\* no socket yet, nothing on the wire
InitLink ==
    /\ conn = <<>>
    /\ got = [c \in Conns |-> 0]
    /\ missed = {}

\* the file names of a bundle
IndexHtml == "index.html"

AppJs == "app.js"

NoDist == [exists |-> FALSE, files |-> {}]

\* the server has not started
InitStatic ==
    /\ started = FALSE
    /\ distExists = FALSE
    /\ dist = NoDist
    /\ replies = <<>>

\* "1969-07-16T17:05:54Z" and "1969-07-16T18:00:00Z", in s after midnight
correctedTliEndTime == 61554

earthSceneEndTime == 64800

\* a new Cesium.Viewer's clock shows the system time, which is past the scene
SystemTime == earthSceneEndTime + 1

\* App as first rendered: the home screen, nothing selected, Earth not mounted
InitApp ==
    /\ currentScene = "home"
    /\ isLoading = FALSE
    /\ nextScene = "null"
    /\ committed = [currentScene |-> "home", isLoading |-> FALSE,
                    nextScene |-> "null"]
    /\ loadTimer = "none"
    /\ selectedOption = "null"
    /\ moonModule = "idle"
    /\ viewer = FALSE
    /\ czml = "none"
    /\ onTick = FALSE
    /\ triggered = FALSE
    /\ tracked = "none"
    /\ now = SystemTime
    /\ ended = 0
    /\ lateTicks = 0

\* no handleSpacecraftData yet
NoData == [distance |-> 0, invoked |-> <<>>, threw |-> FALSE, live |-> <<>>]

\* new EventEmitter(): no listener
InitHook ==
    /\ emitter = <<>>
    /\ removers = <<>>
    /\ removed = {}
    /\ heard = NoData

InitOther == InitStatic /\ InitApp /\ InitHook

Init == InitRelay /\ InitClient /\ InitLink /\ InitOther

SpecRelay == Init /\ [][NextRelay]_vars

TimerFires == \E j \in 1..Len(timers) : TimerFire(j)

\* the client alone, its sockets opening, closing and receiving whatever the
\* other end decides
NextClient ==
    \/ GetInstance /\ UNCHANGED aloneVars
    \/ \E i \in 1..Len(socks) : SocketOpen(i) /\ UNCHANGED aloneVars
    \/ \E i \in 1..Len(socks) : SocketClose(i) /\ UNCHANGED aloneVars
    \/ Tick /\ UNCHANGED aloneVars
    \/ TimerFires /\ UNCHANGED aloneVars
    \/ \E t \in Types, cb \in Subscribers :
          Subscribe(t, cb) /\ UNCHANGED aloneVars
    \/ \E h \in 1..Len(handles) : Unsubscribe(h) /\ UNCHANGED aloneVars
    \/ \E d \in Datas : \E sc \in ScriptsFor(d) :
          OnMessage(d, sc) /\ UNCHANGED aloneVars

SpecClient == Init /\ [][NextClient]_vars

\* the timer is a real clock: time passes and a due callback runs
FairSpecClient ==
    /\ SpecClient
    /\ WF_vars(Tick /\ UNCHANGED aloneVars)
    /\ WF_vars(TimerFires /\ UNCHANGED aloneVars)

\* the client after getInstance(), the open event and subscribe(
\* "spacecraft-distance", l) for l = f, g, h
ThreeListeners ==
    /\ instance = TRUE
    /\ socks = <<"OPEN">>
    /\ timers = <<>>
    /\ callbacks = [t \in {"spacecraft-distance"} |->
                       <<[cb |-> "f", reg |-> 1], [cb |-> "g", reg |-> 2],
                         [cb |-> "h", reg |-> 3]>>]
    /\ handles = <<[type |-> "spacecraft-distance", cb |-> "f"],
                   [type |-> "spacecraft-distance", cb |-> "g"],
                   [type |-> "spacecraft-distance", cb |-> "h"]>>
    /\ called = {}
    /\ closes = 0
    /\ elapsed = ReconnectDelay
    /\ last = NoEvent

InitRegistry == InitRelay /\ ThreeListeners /\ InitLink /\ InitOther

\* the registry's events from there on, the socket staying open
NextRegistry ==
    \/ \E h \in 1..Len(handles) : Unsubscribe(h) /\ UNCHANGED aloneVars
    \/ \E d \in Datas : \E sc \in ScriptsFor(d) :
          OnMessage(d, sc) /\ UNCHANGED aloneVars

SpecRegistry == InitRegistry /\ [][NextRegistry]_vars

(***************************************************************************)
(* The client connected to the relay: each socket of the client is one     *)
(* connection of the relay once the relay has accepted it, and the frames  *)
(* the relay sends to that connection reach socket.onmessage in order.     *)
(***************************************************************************)
\* the client has no connection open at the relay
Disconnected ==
    \A i \in 1..Len(conn) : conn[i] = "none" \/ conn[i] \notin OpenConns

\* the body {"distance": n} of the n-th request
NthDistance == JsNumber(Fin(posts + 1, 0))

\* JSON.parse(event.data) of a frame the relay sent
Parse(frame) == EnvelopeData(frame.type, frame.payload)

\* getInstance(): the first call opens a socket
LinkGetInstance ==
    /\ GetInstance
    /\ conn' = IF instance THEN conn ELSE Append(conn, "none")
    /\ UNCHANGED <<got, missed>>

\* the relay accepts the upgrade request of socket i as connection c
LinkAccept(i, c) ==
    /\ socks[i] = "CONNECTING"
    /\ conn[i] = "none"
    /\ c \notin Range(conn)
    /\ WsConnection(c)
    /\ conn' = [conn EXCEPT ![i] = c]
    /\ got' = [got EXCEPT ![c] = 0]
    /\ UNCHANGED missed

\* the open event of socket i, after the relay's answer
LinkOpen(i) ==
    /\ conn[i] # "none"
    /\ SocketOpen(i)
    /\ UNCHANGED linkVars

\* the next frame of its connection reaches socket i, whose listeners return
LinkMessage(i) ==
    /\ socks[i] = "OPEN"
    /\ conn[i] # "none"
    /\ got[conn[i]] < Len(inbox[conn[i]])
    /\ OnMessage(Parse(inbox[conn[i]][got[conn[i]] + 1]),
                 [l \in Listeners |-> Return])
    /\ got' = [got EXCEPT ![conn[i]] = @ + 1]
    /\ UNCHANGED <<conn, missed>>

\* the close event of socket i: the attempt failed or the connection is lost
LinkClose(i) ==
    /\ SocketClose(i)
    /\ conn' = RemoveAt(conn, i)
    /\ UNCHANGED <<got, missed>>

\* the reconnect timer opens a socket
LinkTimerFire(j) ==
    /\ TimerFire(j)
    /\ conn' = Append(conn, "none")
    /\ UNCHANGED <<got, missed>>

\* the n-th request, its distance n
LinkPost ==
    /\ Post(NthDistance, {})
    /\ missed' = IF Disconnected THEN missed \cup {posts + 1} ELSE missed
    /\ UNCHANGED <<conn, got>>

NextLinked ==
    \/ LinkGetInstance /\ UNCHANGED otherVars
    \/ \E i \in 1..Len(socks) : \E c \in Conns :
          LinkAccept(i, c) /\ UNCHANGED otherVars
    \/ \E i \in 1..Len(socks) : LinkOpen(i) /\ UNCHANGED otherVars
    \/ \E i \in 1..Len(socks) : LinkMessage(i) /\ UNCHANGED otherVars
    \/ \E i \in 1..Len(socks) : LinkClose(i) /\ UNCHANGED otherVars
    \/ \E j \in 1..Len(timers) : LinkTimerFire(j) /\ UNCHANGED otherVars
    \/ LinkPost /\ UNCHANGED otherVars
    \/ Tick /\ UNCHANGED aloneVars
    \/ Subscribe("spacecraft-distance", "f") /\ UNCHANGED aloneVars
    \/ \E c \in Conns : WsClosing(c) /\ UNCHANGED aloneVars
    \/ \E c \in Conns : WsClose(c) /\ UNCHANGED aloneVars

SpecLinked == Init /\ [][NextLinked]_vars

(***************************************************************************)
(* Static hosting: express.static and the two GET routes.                  *)
(***************************************************************************)
\* the dist directory when the server starts: absent, empty, or holding some
\* of index.html and app.js
Dists ==
    {NoDist} \cup {[exists |-> TRUE, files |-> f] : f \in SUBSET {IndexHtml, AppJs}}

\* the path of a GET, as its segments: /, /app.js, /index.html, /about, /a/b
Paths == {<<>>, <<AppJs>>, <<IndexHtml>>, <<"about">>, <<"a", "b">>}

NotFoundMessage ==
    "Frontend build files not found. Please build the frontend application."

File(name) == [status |-> 200, body |-> name]

\* what Express answers when no handler ends the request, or sendFile fails
\* with ENOENT
DefaultNotFound == [status |-> 404, body |-> "Not Found"]

\* the server starts with the dist directory d
Listen(d) ==
    /\ ~started
    /\ started' = TRUE
    /\ dist' = d
    /\ distExists' = d.exists
    /\ UNCHANGED replies

\* express.static(distPath), mounted only if distExists: the file the path
\* names, index.html for the root; "next" when there is no such file
Static(path) ==
    IF ~distExists THEN "next"
    ELSE IF path = <<>>
         THEN IF IndexHtml \in dist.files THEN IndexHtml ELSE "next"
         ELSE IF Len(path) = 1 /\ path[1] \in dist.files THEN path[1]
              ELSE "next"

\* variant: the routes send index.html without looking at distExists
SpaFallbackAlways ==
    IF IndexHtml \in dist.files THEN File(IndexHtml) ELSE DefaultNotFound

\* the body of app.get("/") and of app.get("/:path")
SpaFallback ==
    IF distExists
    THEN IF IndexHtml \in dist.files THEN File(IndexHtml) ELSE DefaultNotFound
    ELSE [status |-> 404, body |-> NotFoundMessage]

\* a GET: express.static first, then the route the path matches
Respond(path) ==
    IF Static(path) # "next" THEN File(Static(path))
    ELSE IF Len(path) <= 1 THEN SpaFallback
         ELSE DefaultNotFound

Get(path) ==
    /\ started
    /\ Len(replies) < MaxGets
    /\ replies' = Append(replies, [path |-> path, res |-> Respond(path)])
    /\ UNCHANGED <<started, distExists, dist>>

NextStatic ==
    \/ \E d \in Dists : Listen(d) /\ UNCHANGED exceptStatic
    \/ \E p \in Paths : Get(p) /\ UNCHANGED exceptStatic

SpecStatic == Init /\ [][NextStatic]_vars

(***************************************************************************)
(* App and the Earth scene: the scene selection, the loading screen and    *)
(* the clock listener that ends the Earth scene.  An update made in a      *)
(* click handler is rendered before the handler's event ends; an update    *)
(* made in a timeout or in a clock listener is rendered by a later step.   *)
(***************************************************************************)
\* the times the clock shows at a tick: just before, at and just after the
\* two times onTickListener compares with
Times ==
    { correctedTliEndTime - 1, correctedTliEndTime, correctedTliEndTime + 1,
      earthSceneEndTime - 1, earthSceneEndTime, SystemTime }

sceneMap == [launch |-> "earth", landing |-> "moon"]

\* the state of App as the setters left it
State ==
    [currentScene |-> currentScene, isLoading |-> isLoading,
     nextScene |-> nextScene]

\* variant: the home screen is rendered whatever isLoading is
RenderedHomeAlways(s) ==
    (IF s.currentScene = "home" THEN {"home"} ELSE {})
    \cup (IF s.isLoading THEN {"loading"} ELSE {})
    \cup (IF s.currentScene = "earth" /\ ~s.isLoading THEN {"earth"} ELSE {})
    \cup (IF s.currentScene = "moon" /\ ~s.isLoading THEN {"moon"} ELSE {})

\* the children App returns when it renders the state s
Rendered(s) ==
    (IF s.currentScene = "home" /\ ~s.isLoading THEN {"home"} ELSE {})
    \cup (IF s.isLoading THEN {"loading"} ELSE {})
    \cup (IF s.currentScene = "earth" /\ ~s.isLoading THEN {"earth"} ELSE {})
    \cup (IF s.currentScene = "moon" /\ ~s.isLoading THEN {"moon"} ELSE {})

\* the children of App that are mounted
screen == Rendered(committed)

\* what the page shows: Suspense shows its fallback, a LoadingScreen, in
\* place of MoonScene until the lazy module has resolved
Shown ==
    IF "moon" \in screen /\ moonModule # "resolved"
    THEN (screen \ {"moon"}) \cup {"loading"}
    ELSE screen

\* variant: the effect starts no timeout
LoadingEffectNever(s) == "none"

\* App's effect run for the state s: the timeout it leaves pending
LoadingEffect(s) ==
    IF s.isLoading /\ s.nextScene # "null" THEN s.nextScene ELSE "none"

\* React renders the state s and runs the effects: App's effect when
\* [isLoading, nextScene] changed (its cleanup clears the old timeout),
\* Earth's effect when Earth is rendered (onEarthSceneEnd is a new function
\* in every render of App) and Earth's cleanup when Earth was mounted
Commit(s) ==
    /\ committed' = s
    /\ loadTimer' =
           IF s.isLoading = committed.isLoading
              /\ s.nextScene = committed.nextScene
           THEN loadTimer
           ELSE LoadingEffect(s)
    /\ selectedOption' =
           IF "home" \in Rendered(s) /\ "home" \in screen THEN selectedOption
           ELSE "null"
    /\ moonModule' =
           IF "moon" \in Rendered(s) /\ moonModule = "idle" THEN "pending"
           ELSE moonModule
    /\ IF "earth" \in Rendered(s)
       THEN /\ viewer' = TRUE
            /\ czml' = "loading"
            /\ onTick' = FALSE
            /\ triggered' = FALSE
            /\ tracked' = "none"
            /\ now' = SystemTime
            /\ ended' = IF "earth" \in screen THEN ended ELSE 0
            /\ lateTicks' = IF "earth" \in screen THEN lateTicks ELSE 0
       ELSE IF "earth" \in screen
            THEN /\ viewer' = FALSE
                 /\ czml' = "none"
                 /\ onTick' = FALSE
                 /\ triggered' = FALSE
                 /\ tracked' = "none"
                 /\ UNCHANGED <<now, ended, lateTicks>>
            ELSE UNCHANGED <<viewer, czml, onTick, triggered, tracked, now,
                             ended, lateTicks>>

\* a click on one of the two options of the home screen
HandleOptionSelect(option) ==
    /\ "home" \in screen
    /\ selectedOption' = option
    /\ UNCHANGED <<currentScene, isLoading, nextScene, committed, loadTimer,
                   moonModule, viewer, czml, onTick, triggered, tracked, now,
                   ended, lateTicks>>

\* a click on "Begin Experience", which is there once an option is selected:
\* handleSceneSelect(sceneMap[selectedOption])
HandleBeginExperience ==
    /\ "home" \in screen
    /\ selectedOption # "null"
    /\ isLoading' = TRUE
    /\ nextScene' = sceneMap[selectedOption]
    /\ UNCHANGED currentScene
    /\ Commit([currentScene |-> currentScene, isLoading |-> TRUE,
               nextScene |-> sceneMap[selectedOption]])

\* the timeout of App's effect fires
LoadTimerFire ==
    /\ loadTimer # "none"
    /\ currentScene' = loadTimer
    /\ isLoading' = FALSE
    /\ nextScene' = "null"
    /\ loadTimer' = "none"
    /\ UNCHANGED <<committed, selectedOption, moonModule, viewer, czml, onTick,
                   triggered, tracked, now, ended, lateTicks>>

\* React renders the updates of a timeout or of a clock listener
Render ==
    /\ committed # State
    /\ Commit(State)
    /\ UNCHANGED <<currentScene, isLoading, nextScene>>

\* initialize() resumes after czmlDataSource.load: with both entities found
\* it tracks SaturnV and adds onTickListener, otherwise it only logs
CzmlLoaded(found) ==
    /\ viewer
    /\ czml = "loading"
    /\ czml' = IF found THEN "ready" ELSE "failed"
    /\ tracked' = IF found THEN "SaturnV" ELSE tracked
    /\ onTick' = found
    /\ UNCHANGED <<currentScene, isLoading, nextScene, committed, loadTimer,
                   selectedOption, moonModule, viewer, triggered, now, ended,
                   lateTicks>>

\* variant: the listener stays registered after it called onEarthSceneEnd
OnTickListenerKeep(t) ==
    IF ~viewer \/ triggered
    THEN UNCHANGED <<tracked, triggered, isLoading, nextScene, ended, onTick>>
    ELSE /\ tracked' =
                IF tracked = "SaturnV" /\ t >= correctedTliEndTime
                THEN "Post-TLI"
                ELSE tracked
         /\ IF t >= earthSceneEndTime
            THEN /\ triggered' = TRUE
                 /\ isLoading' = TRUE
                 /\ nextScene' = "moon"
                 /\ ended' = IF ended = 0 THEN 1 ELSE 2
                 /\ UNCHANGED onTick
            ELSE UNCHANGED <<triggered, isLoading, nextScene, ended, onTick>>

\* onTickListener with the clock at t; onEarthSceneEnd is App's
\* handleEarthSceneEnd
OnTickListener(t) ==
    IF ~viewer \/ triggered
    THEN UNCHANGED <<tracked, triggered, isLoading, nextScene, ended, onTick>>
    ELSE /\ tracked' =
                IF tracked = "SaturnV" /\ t >= correctedTliEndTime
                THEN "Post-TLI"
                ELSE tracked
         /\ IF t >= earthSceneEndTime
            THEN /\ triggered' = TRUE
                 /\ isLoading' = TRUE
                 /\ nextScene' = "moon"
                 /\ ended' = IF ended = 0 THEN 1 ELSE 2
                 /\ onTick' = FALSE
            ELSE UNCHANGED <<triggered, isLoading, nextScene, ended, onTick>>

\* the viewer's clock ticks and shows t (the timeline can be dragged either
\* way); the clock raises onTick
ClockTick(t) ==
    /\ viewer
    /\ (czml = "ready" /\ t >= earthSceneEndTime) => lateTicks < MaxTicks
    /\ now' = t
    /\ lateTicks' =
           IF czml = "ready" /\ t >= earthSceneEndTime THEN lateTicks + 1
           ELSE lateTicks
    /\ IF onTick THEN OnTickListener(t)
       ELSE UNCHANGED <<tracked, triggered, isLoading, nextScene, ended,
                        onTick>>
    /\ UNCHANGED <<currentScene, committed, loadTimer, selectedOption,
                   moonModule, viewer, czml>>

\* import("./components/MoonScene") resolves
MoonLoaded ==
    /\ moonModule = "pending"
    /\ moonModule' = "resolved"
    /\ UNCHANGED <<currentScene, isLoading, nextScene, committed, loadTimer,
                   selectedOption, viewer, czml, onTick, triggered, tracked,
                   now, ended, lateTicks>>

NextApp ==
    \/ \E o \in DOMAIN sceneMap : HandleOptionSelect(o) /\ UNCHANGED exceptApp
    \/ HandleBeginExperience /\ UNCHANGED exceptApp
    \/ LoadTimerFire /\ UNCHANGED exceptApp
    \/ Render /\ UNCHANGED exceptApp
    \/ \E found \in BOOLEAN : CzmlLoaded(found) /\ UNCHANGED exceptApp
    \/ \E t \in Times : ClockTick(t) /\ UNCHANGED exceptApp
    \/ MoonLoaded /\ UNCHANGED exceptApp

SpecApp == Init /\ [][NextApp]_vars

\* a pending render is carried out, a pending timeout fires, and the import
\* of the MoonScene module settles
FairSpecApp ==
    /\ SpecApp
    /\ WF_vars(Render /\ UNCHANGED exceptApp)
    /\ WF_vars(LoadTimerFire /\ UNCHANGED exceptApp)
    /\ WF_vars(MoonLoaded /\ UNCHANGED exceptApp)

(***************************************************************************)
(* WebhookService: an EventEmitter with the one event "distanceUpdate".    *)
(* on appends the listener; off removes the matching listener added last;  *)
(* emit calls a copy of the listeners in order and lets a listener's       *)
(* exception through to its caller.                                        *)
(***************************************************************************)
\* the callbacks components subscribe; boom throws when it is called
HookCallbacks == {"f", "g", "boom"}

\* data.distance
HookDistances == {1, 2}

\* the last index of cb in seq, 0 when there is none
LastIndexOf(seq, cb) ==
    IF \E i \in 1..Len(seq) : seq[i] = cb
    THEN CHOOSE i \in 1..Len(seq) :
             /\ seq[i] = cb
             /\ \A j \in (i + 1)..Len(seq) : seq[j] # cb
    ELSE 0

\* eventEmitter.off("distanceUpdate", cb)
RemoveListener(seq, cb) ==
    IF LastIndexOf(seq, cb) = 0 THEN seq
    ELSE RemoveAt(seq, LastIndexOf(seq, cb))

\* eventEmitter.emit("distanceUpdate", distance): the calls made, and whether
\* a listener threw
Emit(seq, distance) ==
    LET booms == {i \in 1..Len(seq) : seq[i] = "boom"}
        stop == IF booms = {} THEN Len(seq)
                ELSE CHOOSE i \in booms : \A j \in booms : i <= j
    IN  [invoked |-> [i \in 1..stop |-> <<seq[i], distance>>],
         threw |-> booms # {}]

\* the callbacks of the registrations whose function has not been called
Live ==
    LET keep == {i \in 1..Len(removers) : i \notin removed}
        F[i \in 0..Len(removers)] ==
            IF i = 0 THEN <<>>
            ELSE IF i \in keep THEN Append(F[i - 1], removers[i])
                 ELSE F[i - 1]
    IN  F[Len(removers)]

OnDistanceUpdate(callback) ==
    /\ Len(removers) < MaxOns
    /\ emitter' = Append(emitter, callback)
    /\ removers' = Append(removers, callback)
    /\ UNCHANGED <<removed, heard>>

\* the i-th function onDistanceUpdate returned is called
OffDistanceUpdate(i) ==
    /\ i \in 1..Len(removers)
    /\ emitter' = RemoveListener(emitter, removers[i])
    /\ removed' = removed \cup {i}
    /\ UNCHANGED <<removers, heard>>

HandleSpacecraftData(distance) ==
    /\ heard' = [distance |-> distance,
                 invoked |-> Emit(emitter, distance).invoked,
                 threw |-> Emit(emitter, distance).threw,
                 live |-> Live]
    /\ UNCHANGED <<emitter, removers, removed>>

NextHook ==
    \/ \E cb \in HookCallbacks : OnDistanceUpdate(cb) /\ UNCHANGED exceptHook
    \/ \E i \in 1..Len(removers) : OffDistanceUpdate(i) /\ UNCHANGED exceptHook
    \/ \E d \in HookDistances :
          HandleSpacecraftData(d) /\ UNCHANGED exceptHook

SpecHook == Init /\ [][NextHook]_vars

(***************************************************************************)
(* Dispatch and the Subscriber Registry.                                   *)
(***************************************************************************)
\* the last event was a message holding an envelope with a usable type
EnvelopeReceived ==
    /\ last.op = "message"
    /\ last.data.json = "object"
    /\ last.data.type \in Types

\* the registrations for type in the map cbs
Registered(cbs, type) == IF type \in DOMAIN cbs THEN cbs[type] ELSE <<>>

Regs(list) == {list[i].reg : i \in 1..Len(list)}

CbList(list) == [i \in 1..Len(list) |-> list[i].cb]

\* C5: unsubscribing during the delivery of an envelope (no listener
\* throwing) makes no other listener of that type miss it: every
\* registration for the type that was there when the delivery began and is
\* still there when it ends has been called.
C5_UnsubscribeDuringDeliveryLosesNothing ==
    (EnvelopeReceived /\ ~last.caught) =>
        \A r \in Regs(Registered(last.before, last.data.type))
                    \cap Regs(Registered(callbacks, last.data.type)) :
            \E i \in 1..Len(last.calls) : last.calls[i].reg = r

\* the map cbs without registration h
Without(cbs, h) ==
    [t \in DOMAIN cbs |-> SelectSeq(cbs[t], LAMBDA e : e.reg # h)]

Listening(cbs) == [t \in DOMAIN cbs |-> CbList(cbs[t])]

\* C6: the first call of the function returned by a subscribe removes the
\* registration it was returned for and nothing else, and every later call of
\* it leaves the registry as it was, also when the listener is registered
\* more than once.
C6_UnsubscribeRemovesOwnRegistrationOnce ==
    last.op = "unsubscribe" =>
        Listening(callbacks) =
            IF last.again THEN Listening(last.before)
            ELSE Listening(Without(last.before, last.h))

\* C10: a well-formed envelope invokes every registration for its type once,
\* with its payload, in registration order, and invokes nothing else.
C10_DispatchInRegistrationOrder ==
    EnvelopeReceived =>
        last.calls =
            LET list == Registered(last.before, last.data.type)
            IN  [i \in 1..Len(list) |->
                    [cb |-> list[i].cb, reg |-> list[i].reg,
                     arg |-> last.data.payload]]

(***************************************************************************)
(* Reconnection.                                                           *)
(***************************************************************************)
Attempting == \E i \in 1..Len(socks) : socks[i] = "CONNECTING"

\* C7: at most one reconnect timer is pending, at most one socket is
\* connecting or open, never both, and once a close has happened exactly one
\* of the two exists.
C7_OneReconnectPending ==
    /\ Len(timers) <= 1
    /\ Len(socks) <= 1
    /\ ~(Len(timers) > 0 /\ Len(socks) > 0)
    /\ closes > 0 => Len(timers) + Len(socks) = 1

C7_Witness == closes > 0 /\ Len(timers) = 1 /\ socks = <<>>

\* C8: after every close event, however many came before, a new connection
\* attempt eventually starts (the timer being fair).
C8_AlwaysEventuallyReconnects == (last.op = "close") ~> Attempting

C8_Witness == closes = MaxCloses /\ MaxCloses > 1 /\ Attempting

\* C9: once the client exists, a connection attempt starts only when a timer
\* fires, ReconnectDelay ms or more after the last close event.
C9_NoAttemptBeforeDelay ==
    [][(instance /\ Len(socks') > Len(socks)) =>
          (elapsed >= ReconnectDelay /\ Len(timers') < Len(timers))]_vars

C9_Witness == closes = 1 /\ elapsed >= ReconnectDelay /\ Attempting

(***************************************************************************)
(* Unsubscribed and duplicate listeners, frames that are no envelope.      *)
(***************************************************************************)
\* how many elements of seq satisfy Test
Count(seq, Test(_)) == Cardinality({i \in 1..Len(seq) : Test(seq[i])})

\* the closures of done that subscribe(type, cb) returned
ClosuresFor(type, cb, done) ==
    {h \in 1..Len(handles) :
        handles[h].type = type /\ handles[h].cb = cb /\ h \in done}

\* C11: once an unsubscribe closure has been called, an envelope received
\* later invokes its listener at most once for each subscription of it whose
\* closure had not been called, and invokes every other listener that is
\* still registered for the type.
C11_UnsubscribedSilentOthersInvoked ==
    EnvelopeReceived =>
        \A u \in {h \in last.done : handles[h].type = last.data.type} :
            LET type == last.data.type
                cb   == handles[u].cb
            IN  /\ Count(last.calls, LAMBDA c : c.cb = cb)
                      <= Cardinality(ClosuresFor(type, cb, 1..Len(handles)))
                           - Cardinality(ClosuresFor(type, cb, last.done))
                /\ \A i \in 1..Len(Registered(last.before, type)) :
                      LET other == Registered(last.before, type)[i].cb
                      IN  other # cb =>
                            Count(last.calls, LAMBDA c : c.cb = other) > 0

\* every listener returns
AllReturn == [l \in Listeners |-> Return]

\* the calls that invoke every registration of list once, in order, with arg
CallsOf(list, arg) ==
    [i \in 1..Len(list) |->
        [cb |-> list[i].cb, reg |-> list[i].reg, arg |-> arg]]

\* C12: a message whose data is no envelope (text that does not parse, the
\* JSON texts null and {}) invokes no listener and leaves the registry, the
\* sockets and the timers as they were, the socket open; an envelope arriving
\* next is dispatched to the listeners registered for its type.
C12_NonEnvelopeDiscarded ==
    [][(last'.op = "message" /\ last'.data \notin
            {EnvelopeData(t, p) : t \in Types, p \in Payloads}) =>
          /\ last'.calls = <<>>
          /\ callbacks' = callbacks
          /\ socks' = socks
          /\ timers' = timers
          /\ \E i \in 1..Len(socks') : socks'[i] = "OPEN"
          /\ \A t \in DOMAIN callbacks, p \in Payloads :
                HandleMessage(EnvelopeData(t, p), AllReturn).calls
                    = CallsOf(callbacks[t], p)]_vars

C12_Witness ==
    /\ last.op = "message"
    /\ last.data = Malformed
    /\ last.caught
    /\ \E t \in DOMAIN callbacks : Len(callbacks[t]) > 0
    /\ \E i \in 1..Len(socks) : socks[i] = "OPEN"

(***************************************************************************)
(* The relay: who is sent what, and when.                                  *)
(***************************************************************************)

\* the last request passed the validation and reached the broadcast
Broadcast ==
    Handled /\ lastReq.parsed /\ ~InvalidDistance(lastReq.distance)

\* C13: a broadcast sends the envelope only to the connections that are open;
\* a connection of the set in another state is skipped, which raises no error
\* and leaves the response 200.
C13_OnlyOpenAreSent ==
    Broadcast =>
        /\ \A c \in Conns \ lastReq.open : lastReq.sent[c] = <<>>
        /\ lastReq.failing = {} =>
              /\ lastReq.status = 200
              /\ \A c \in lastReq.open :
                    lastReq.sent[c] = <<Envelope(lastReq.distance)>>

\* a broadcast answered 200 that skipped a closing connection of the set and
\* sent to an open one
C13_Witness ==
    /\ Broadcast
    /\ lastReq.status = 200
    /\ Range(lastReq.order) \ lastReq.open # {}
    /\ \E c \in lastReq.open : lastReq.sent[c] # <<>>

\* C14: there is no replay.  A connection opens with nothing received, and a
\* connection receives a frame only in the step of a request handled while
\* it is in the set and open, that frame being the request's envelope.
C14_NoReplay ==
    [][\A c \in Conns :
          /\ (c \notin Range(clients) /\ c \in Range(clients')) =>
                inbox'[c] = <<>>
          /\ (c \in Range(clients) /\ inbox'[c] # inbox[c]) =>
                /\ c \in OpenConns
                /\ posts' = posts + 1
                /\ inbox'[c] = Append(inbox[c], Envelope(lastReq'.distance))
      ]_vars

\* a connection that opened after an envelope was published to another one
\* and has received nothing
C14_Witness ==
    \E c \in OpenConns : \E d \in Conns \ {c} :
        /\ lastReq.status = 200
        /\ c \notin lastReq.open
        /\ lastReq.sent[d] # <<>>
        /\ inbox[d] # <<>>
        /\ inbox[c] = <<>>

\* C15: a connection receives the envelopes published while it is open in
\* the order the requests were handled: what a request sends to a connection
\* comes after everything the connection has received before.
C15_PublishOrder ==
    [][posts' = posts + 1 =>
          \A c \in Conns : inbox'[c] = inbox[c] \o lastReq'.sent[c]]_vars

\* a connection that has received the envelopes of two requests, different
\* ones, the later request's last
C15_Witness ==
    \E c \in OpenConns :
        /\ Len(inbox[c]) = 2
        /\ inbox[c][1] # inbox[c][2]
        /\ lastReq.sent[c] = <<inbox[c][2]>>

\* C16: the close event of a connection removes it, and only it, from the
\* set; a further close event of that connection raises nothing, removes no
\* other connection and leaves the set as it is.
C16_CloseRemovesOnce ==
    [][\A c \in Conns :
          /\ (closeEvents[c] = 0 /\ closeEvents'[c] = 1) =>
                /\ c \in Range(clients)
                /\ clients' = SelectSeq(clients, LAMBDA x : x # c)
          /\ (closeEvents[c] >= 1 /\ closeEvents'[c] > closeEvents[c]) =>
                /\ c \notin Range(clients)
                /\ clients' = clients
                /\ \A d \in Conns \ {c} : readyState'[d] = readyState[d]
      ]_vars

\* a connection has had a second close event while another one is in the set
C16_Witness ==
    \E c \in Conns :
        /\ closeEvents[c] >= 2
        /\ Range(clients) # {}
        /\ c \notin Range(clients)

\* the handling of the last request failed: its body did not parse, or a
\* send of its broadcast threw
Failed ==
    /\ Handled
    /\ \/ ~lastReq.parsed
       \/ Broadcast /\ lastReq.failing \cap lastReq.open # {}

\* C17: a failure while handling a request is answered 500 with the body
\* {"error":"Internal server error"}, and the relay goes on handling
\* requests.
C17_FailureIsInternalServerError ==
    Failed => lastReq.status = 500 /\ lastReq.body = InternalErrorBody

\* C18: every frame a connection has received is an envelope of type
\* "spacecraft-distance" whose payload is a number, the Number(distance) of
\* the accepted request that sent it, and no connection has received more
\* frames than requests were handled.
C18_OnlyNumericEnvelopes ==
    /\ \A c \in Conns : \A i \in 1..Len(inbox[c]) :
          /\ inbox[c][i].type = "spacecraft-distance"
          /\ inbox[c][i].payload.t = "number"
    /\ \A c \in Conns : Len(inbox[c]) <= posts
    /\ Handled =>
          \A c \in Conns : \A i \in 1..Len(lastReq.sent[c]) :
              /\ Broadcast
              /\ lastReq.sent[c][i] = NumberEnvelope(lastReq.distance)

\* C19: the registry does not deduplicate: an envelope invokes each listener
\* as many times as it is registered for the envelope's type.
C19_NoDeduplication ==
    EnvelopeReceived =>
        \A l \in Listeners :
            Count(last.calls, LAMBDA c : c.cb = l)
                = Count(Registered(last.before, last.data.type),
                        LAMBDA e : e.cb = l)

C22_MembershipByLifecycleOnly ==
    [][/\ posts' # posts => clients' = clients
       /\ clients' # clients =>
             \E c \in Conns :
                 \/ /\ c \notin Range(clients)
                    /\ clients' = Append(clients, c)
                    /\ readyState'[c] = "OPEN"
                 \/ /\ c \in Range(clients)
                    /\ clients' = SelectSeq(clients, LAMBDA x : x # c)
                    /\ readyState'[c] = "CLOSED"
      ]_vars

\* two requests have been handled, the last one a broadcast, and a
\* connection that is closing is still in the set beside an open one
C22_Witness ==
    /\ posts = 2
    /\ Broadcast
    /\ lastReq.order = clients
    /\ \E c \in Range(clients) : readyState[c] = "CLOSING"
    /\ \E c \in Range(clients) : readyState[c] = "OPEN"

(***************************************************************************)
(* The life of the client.                                                 *)
(***************************************************************************)
\* C23: the client connects when it is created: its first state is one
\* socket, connecting, and the client never exists with neither a socket nor
\* a pending reconnect timer.
C23_ConnectsOnCreation ==
    /\ [](instance => Len(socks) + Len(timers) >= 1)
    /\ [][(~instance /\ instance') =>
             socks' = <<"CONNECTING">> /\ timers' = <<>>]_vars

\* the client has just been created and its socket is connecting
C23_Witness ==
    /\ instance
    /\ last.op = "getInstance"
    /\ socks = <<"CONNECTING">>
    /\ closes = 0
    /\ handles = <<>>

\* C25: the registry survives reconnection: once the client has reconnected,
\* an envelope received invokes every registration that was there for its
\* type exactly once, no listener having subscribed again.
C25_RegistrySurvivesReconnection ==
    (EnvelopeReceived /\ closes > 0) =>
        LET list == Registered(last.before, last.data.type)
        IN  \A i \in 1..Len(list) :
                Count(last.calls, LAMBDA c : c.reg = list[i].reg) = 1

\* C26: a listener that throws during dispatch is caught in the message
\* handler: the socket stays as it is, no reconnection is scheduled, and
\* unless a listener called an unsubscribe closure the registry is as it was.
C26_ListenerThrowIsContained ==
    [][(last'.op = "message" /\ last'.caught /\ last'.calls # <<>>) =>
          /\ socks' = socks
          /\ timers' = timers
          /\ closes' = closes
          /\ last'.offs = {} => callbacks' = callbacks]_vars

\* a listener has thrown on an envelope; the socket is open, no timer is
\* pending and the listener is still registered
C26_Witness ==
    /\ last.op = "message"
    /\ last.caught
    /\ last.calls # <<>>
    /\ last.offs = {}
    /\ socks = <<"OPEN">>
    /\ timers = <<>>
    /\ \E i \in 1..Len(Registered(callbacks, last.data.type)) :
          Registered(callbacks, last.data.type)[i].reg
              = last.calls[Len(last.calls)].reg

\* C27: getInstance gives the same service on every call: the first call
\* creates it with one connecting socket, and a later call changes neither
\* the sockets, the timers nor the registry.
C27_GetInstanceIsSingleton ==
    [][last'.op = "getInstance" =>
          /\ instance'
          /\ ~instance => socks' = <<"CONNECTING">> /\ callbacks' = callbacks
          /\ instance =>
                UNCHANGED <<socks, timers, callbacks, handles, called>>]_vars

\* getInstance has been called again after a subscription; there is one
\* socket and the subscription is in the registry
C27_Witness ==
    /\ last.op = "getInstance"
    /\ Len(socks) = 1
    /\ handles # <<>>
    /\ \E t \in DOMAIN callbacks : callbacks[t] # <<>>

(***************************************************************************)
(* Static hosting.                                                         *)
(***************************************************************************)
\* a GET of the document root or of a single-segment path
RootOrSingle(reply) == Len(reply.path) <= 1

C24_SceneEndFiresOnce ==
    /\ ended <= 1
    /\ ended >= 1 /\ viewer => triggered /\ ~onTick

\* the scene has ended and the clock has ticked again past the end time in
\* the same mount
C24_Witness ==
    /\ viewer
    /\ ended = 1
    /\ lateTicks >= 2
    /\ ~onTick

\* C28: App never renders more than one of the home screen, the loading
\* screen, the Earth scene and the Moon scene: when it rendered with
\* isLoading true only the loading screen is there, and the home screen or a
\* scene is there only when it rendered with isLoading false.
C28_OneScreenAtATime ==
    /\ Cardinality(screen) <= 1
    /\ Cardinality(Shown) <= 1
    /\ committed.isLoading => screen = {"loading"} /\ Shown = {"loading"}
    /\ screen \cap {"home", "earth", "moon"} # {} => ~committed.isLoading

\* the loading screen replaces the Earth scene that has just ended
C28_Witness ==
    /\ committed.currentScene = "earth"
    /\ committed.isLoading
    /\ screen = {"loading"}
    /\ ~viewer

\* C29: once a scene has been requested, from the home screen or by the end
\* of the Earth scene, the loading state eventually ends with currentScene
\* the requested scene, isLoading false and nextScene null; after the Earth
\* scene has ended the Moon scene is eventually shown.
C29_LoadingEnds ==
    /\ \A s \in {"earth", "moon"} :
           (isLoading /\ nextScene = s)
               ~> (currentScene = s /\ ~isLoading /\ nextScene = "null")
    /\ (ended >= 1) ~> (Shown = {"moon"})

\* the Moon scene is shown after the Earth scene ended
C29_Witness ==
    /\ ended = 1
    /\ currentScene = "moon"
    /\ ~isLoading
    /\ nextScene = "null"
    /\ Shown = {"moon"}

\* the calls of cb among the calls of a handleSpacecraftData
TimesInvoked(cb, calls) ==
    Cardinality({i \in 1..Len(calls) : calls[i] = cb})

\* C30: handleSpacecraftData(data) calls every callback subscribed through
\* onDistanceUpdate with data.distance, once for each registration whose
\* returned function has not been called, and calls no registration whose
\* returned function has been called.
C30_EveryLiveCallbackHears ==
    \A cb \in HookCallbacks :
        TimesInvoked(<<cb, heard.distance>>, heard.invoked)
            = TimesInvoked(cb, heard.live)

====
